---- MODULE Spec2Model ----
(***************************************************************************)
(* Payment proxy between a storefront and the Airwallex processor.         *)
(*                                                                         *)
(* The repository holds three revisions of the same server:                *)
(*   rev 1  src/server.js lines 1-291    (all routes, JSON-body login)     *)
(*   rev 2  src/server.js lines 293-536  (create-payment-intent only,      *)
(*                                        Basic-auth login, interceptor)  *)
(*   rev 3  src/unnamed/part_000         (POST /create-payment)            *)
(*                                                                         *)
(* A request is handled in up to three steps, one per await of the         *)
(* handler: Receive (validation up to the login call), LoginReturns (the   *)
(* login answer up to the payment call) and PayReturns (the payment answer *)
(* up to the response).                                                    *)
(*                                                                         *)
(* JavaScript numbers are modelled as integers scaled by 1000 (1.5 is      *)
(* 1500); the amounts drawn are values whose double product with 100 is    *)
(* the exact decimal product, so Math.round is computed exactly.           *)
(***************************************************************************)
EXTENDS Integers, Sequences, FiniteSets

VARIABLES ENV, clientId, apiKey, req, pc, token, calls, loginAns, payAns, resp, nextTok

vars == <<ENV, clientId, apiKey, req, pc, token, calls, loginAns, payAns, resp, nextTok>>

\* ----------------------------------------------------------------- bounds
\* Requests in flight together in the concurrent specifications.
NumReq == 2

Reqs == 1..NumReq

\* ------------------------------------------------------------- JS values
JS(t, v) == [t |-> t, v |-> v]

Undefined == JS("undefined", 0)
Null == JS("null", 0)
NaN == JS("NaN", 0)
Infinity == JS("Infinity", 0)
Num(v) == JS("number", v)
\* a string holding a decimal numeral, a string holding no numeral, ""
NumStr(v) == JS("numstr", v)
WordStr == JS("string", 0)
EmptyStr == JS("emptystr", 0)

\* Number(x)
Number(x) ==
  CASE x.t = "undefined" -> NaN
    [] x.t = "null" -> Num(0)
    [] x.t = "boolean" -> Num(x.v * 1000)
    [] x.t = "number" -> x
    [] x.t = "NaN" -> NaN
    [] x.t = "Infinity" -> Infinity
    [] x.t = "numstr" -> Num(x.v)
    [] x.t = "string" -> NaN
    [] x.t = "emptystr" -> Num(0)

\* JavaScript truthiness, as used by !x
Truthy(x) ==
  CASE x.t \in {"undefined", "null", "NaN", "emptystr"} -> FALSE
    [] x.t \in {"boolean", "number"} -> x.v # 0
    [] x.t \in {"Infinity", "numstr", "string"} -> TRUE

\* Number.isFinite(n) for n = Number(x)
IsFinite(n) == n.t = "number"

\* Math.round(n * 100) as an integer, n scaled by 1000 (rounds half up)
RoundCents(v) == (v + 5) \div 10

\* normalizeAmount of rev 1 (major units, two decimals) and rev 2 (cents)
normalizeAmount(rev, amount) ==
  LET n == Number(amount) IN
  IF ~IsFinite(n) \/ n.v <= 0 THEN Null
  ELSE IF rev = 1 THEN Num(RoundCents(n.v) * 10)
       ELSE Num(RoundCents(n.v) * 1000)

\* ---------------------------------------------------------------- errors
\* A thrown error: status is err.response?.status (0 when the error has no
\* response), code is err.code, msg is err.message.
Err(status, code, msg) == [status |-> status, code |-> code, msg |-> msg]

NoErr == Err(0, "", "")

\* What the processor does with one outbound call: answers 2xx ("ok", with
\* the token field of a login answer, 0 when the field is missing or empty),
\* answers with an error status ("http"), or does not answer within the
\* client timeout ("timeout").
Ans(kind, status, tok) == [kind |-> kind, status |-> status, tok |-> tok]

NoAns == Ans("none", 0, 0)

\* The rejection axios produces for an answer that is not 2xx.
AxiosError(ans) ==
  IF ans.kind = "timeout" THEN Err(0, "ECONNABORTED", "timeout exceeded")
  ELSE Err(ans.status, "ERR_BAD_RESPONSE", "Request failed with status code")

\* ax.interceptors.response: rev 2 rewrites a timeout into a plain Error;
\* rev 1 and rev 3 install no interceptor.
interceptor(rev, error) ==
  IF rev = 2 /\ error.code = "ECONNABORTED"
  THEN Err(0, "", "Request timeout with payment provider")
  ELSE error

\* err.message.includes(needle), over the messages an error can carry here
Includes(msg, needle) ==
  CASE needle = "credentials" -> msg = "Invalid Airwallex credentials"
    [] needle = "Unauthorized" -> FALSE
    [] needle = "temporarily unavailable" -> msg = "Payment service temporarily unavailable"

\* ---------------------------------------------------------------- helpers
\* assertEnv(): TRUE when it throws
assertEnv == ~clientId \/ ~apiKey

MissingEnv == Err(0, "", "Missing environment variables")

\* The outcome of a call that returns a token or throws.
Returned(tok) == [threw |-> FALSE, value |-> tok, err |-> NoErr]
Threw(err) == [threw |-> TRUE, value |-> 0, err |-> err]

\* A catch block that rethrows what it caught.
tokenCatchRethrow(rev, err) == err

\* The catch block of getAirwallexToken.
tokenCatch(rev, err) ==
  IF rev = 1 THEN Err(0, "", "Payment service unavailable")
  ELSE IF err.status = 401 THEN Err(0, "", "Invalid Airwallex credentials")
  ELSE IF err.status >= 500 THEN Err(0, "", "Payment service temporarily unavailable")
  ELSE Err(0, "", "Failed to authenticate with payment provider")

\* getAirwallexToken() from the login answer on (assertEnv has passed).
getAirwallexToken(rev, ans) ==
  IF ans.kind = "ok"
  THEN IF ans.tok = 0
       THEN Threw(tokenCatch(rev, Err(0, "", "Missing token in Airwallex response")))
       ELSE Returned(ans.tok)
  ELSE Threw(tokenCatch(rev, interceptor(rev, AxiosError(ans))))

\* getAccessToken() of rev 3: response.data.access_token, unchecked.
getAccessToken(ans) ==
  IF ans.kind = "ok" THEN Returned(ans.tok) ELSE Threw(AxiosError(ans))

\* await of the revision's token helper, from the login answer on
ObtainToken(rev, ans) ==
  IF rev = 3 THEN getAccessToken(ans) ELSE getAirwallexToken(rev, ans)

\* ------------------------------------------------------------- responses
\* success is "true", "false" or "absent"; error and details are "" when the
\* field is absent; details is "providerBody" for err.response.data.
Response(status, success, error, details) ==
  [status |-> status, success |-> success, error |-> error, details |-> details]

NoResponse == Response(0, "absent", "", "")

\* ...(ENV !== "production" ? { details: body || err.message } : {})
Details(err) ==
  IF ENV = "production" THEN ""
  ELSE IF err.status # 0 THEN "providerBody" ELSE err.msg

\* err.response?.status || 500
Code(err) == IF err.status # 0 THEN err.status ELSE 500

\* catch of POST /create-payment-intent
createIntentCatch(rev, err) ==
  IF rev = 1
  THEN Response(500, "false",
                IF Code(err) = 401 THEN "Authentication failed with payment provider"
                ELSE IF Code(err) = 400 THEN "Invalid payment request"
                ELSE "Failed to create payment",
                Details(err))
  ELSE IF Includes(err.msg, "credentials") \/ Includes(err.msg, "Unauthorized")
       THEN Response(500, "false", "Payment configuration error",
                     IF ENV = "production" THEN "" ELSE err.msg)
  ELSE IF Includes(err.msg, "temporarily unavailable")
       THEN Response(503, "false", "Payment service temporarily unavailable",
                     IF ENV = "production" THEN "" ELSE err.msg)
  ELSE Response(500, "false", "Failed to create payment intent",
                IF ENV = "production" THEN "" ELSE err.msg)

\* catch of POST /confirm-payment
confirmCatch(err) ==
  Response(500, "false",
           IF Code(err) = 404 THEN "Payment intent not found"
           ELSE IF Code(err) = 402 THEN "Payment failed - please check your payment details"
           ELSE "Failed to confirm payment",
           Details(err))

\* catch of GET /payment-status/:id
statusCatch(err) == Response(500, "false", "Failed to get payment status", "")

\* catch of POST /create-payment (rev 3)
createPaymentCatch(err) == Response(500, "absent", "Payment failed", "")

RouteCatch(rq, err) ==
  CASE rq.route = "create-payment-intent" -> createIntentCatch(rq.rev, err)
    [] rq.route = "confirm-payment" -> confirmCatch(err)
    [] rq.route = "payment-status" -> statusCatch(err)
    [] rq.route = "create-payment" -> createPaymentCatch(err)

\* res.json(...) after the payment call answered 2xx
RouteSuccess(rq) ==
  IF rq.route = "create-payment" THEN Response(200, "absent", "", "")
  ELSE Response(200, "true", "", "")

\* ------------------------------------------------------- outbound calls
\* One call to the processor: kind is "login", "create", "confirm" or
\* "status"; token is the bearer token of a payment call (0 prints as
\* "Bearer undefined"); amount and unit_price are the payload's money fields.
Call(kind, tok, amount, unit_price) ==
  [kind |-> kind, token |-> tok, amount |-> amount, unit_price |-> unit_price]

LoginCall == Call("login", 0, Undefined, Undefined)

\* A token kept in one module-level variable that the first login fills.
BearerTokenShared(r, toks) ==
  IF \E q \in DOMAIN toks : toks[q] # 0
  THEN toks[CHOOSE q \in DOMAIN toks :
              toks[q] # 0 /\ \A p \in DOMAIN toks : toks[p] # 0 => toks[q] <= toks[p]]
  ELSE toks[r]

\* Authorization: `Bearer ${token}`, token being the handler's own constant
BearerToken(r, toks) == toks[r]

\* The payment call a handler issues once it holds its token.
PayCall(r, rq, toks) ==
  CASE rq.route = "create-payment-intent" ->
         LET amt == normalizeAmount(rq.rev, rq.amount)
         IN Call("create", BearerToken(r, toks), amt, amt)
    [] rq.route = "create-payment" ->
         Call("create", BearerToken(r, toks), rq.amount, Undefined)
    [] rq.route = "confirm-payment" ->
         Call("confirm", BearerToken(r, toks), Undefined, Undefined)
    [] rq.route = "payment-status" ->
         Call("status", BearerToken(r, toks), Undefined, Undefined)

\* --------------------------------------------------------------- requests
Request(rev, route, amount, orderId, intentId, methodId) ==
  [rev |-> rev, route |-> route, amount |-> amount, orderId |-> orderId,
   intentId |-> intentId, methodId |-> methodId]

NoRequest == Request(0, "", Undefined, Undefined, Undefined, Undefined)

\* The amounts a caller may send.
Amounts ==
  {Undefined, Null, NaN, Infinity, WordStr, EmptyStr, NumStr(12500)}
    \cup {Num(v) : v \in {-1000, 0, 4, 5, 1000, 12345, 29990}}

\* Identifiers a caller may send: missing, "", or a non-empty string.
Ids == {Undefined, EmptyStr, WordStr}

\* Statuses with which the processor may refuse a call.
Statuses == {400, 401, 402, 404, 500, 503}

Timeout == Ans("timeout", 0, 0)

\* A login answered 2xx with no token field (or an empty one).
NoTokenAns == Ans("ok", 200, 0)

\* The ways the processor may treat a call of revision rev (rev 3 sets no
\* client timeout); every login that succeeds is given a fresh token.
LoginAnswers(rev, S) ==
  {Ans("ok", 200, nextTok), NoTokenAns}
    \cup {Ans("http", s, 0) : s \in S}
    \cup (IF rev = 3 THEN {} ELSE {Timeout})

PayAnswers(rev, S) ==
  {Ans("ok", 200, 0)}
    \cup {Ans("http", s, 0) : s \in S}
    \cup (IF rev = 3 THEN {} ELSE {Timeout})

\* ------------------------------------------------------------------ state
Init ==
  /\ ENV \in {"production", "development"}
  /\ clientId \in BOOLEAN
  /\ apiKey \in BOOLEAN
  /\ req = [r \in Reqs |-> NoRequest]
  /\ pc = [r \in Reqs |-> "idle"]
  /\ token = [r \in Reqs |-> 0]
  /\ calls = [r \in Reqs |-> <<>>]
  /\ loginAns = [r \in Reqs |-> NoAns]
  /\ payAns = [r \in Reqs |-> NoAns]
  /\ resp = [r \in Reqs |-> NoResponse]
  /\ nextTok = 1

\* The handler answers and ends.
Respond(r, rq, response) ==
  /\ req' = [req EXCEPT ![r] = rq]
  /\ resp' = [resp EXCEPT ![r] = response]
  /\ pc' = [pc EXCEPT ![r] = "done"]
  /\ UNCHANGED <<ENV, clientId, apiKey, token, calls, loginAns, payAns, nextTok>>

\* const token = await getAirwallexToken() up to the await of the login
\* call: assertEnv() throws into the route's catch (rev 1, rev 2), else the
\* login call goes out.
BeginLogin(r, rq) ==
  IF rq.rev # 3 /\ assertEnv
  THEN Respond(r, rq, RouteCatch(rq, MissingEnv))
  ELSE /\ req' = [req EXCEPT ![r] = rq]
       /\ calls' = [calls EXCEPT ![r] = Append(@, LoginCall)]
       /\ pc' = [pc EXCEPT ![r] = "login"]
       /\ UNCHANGED <<ENV, clientId, apiKey, token, loginAns, payAns, resp, nextTok>>

\* POST /create-payment-intent of rev 1 and rev 2
CreatePaymentIntent(r, rev, amount, orderId) ==
  LET rq == Request(rev, "create-payment-intent", amount, orderId, Undefined, Undefined)
      amt == normalizeAmount(rev, amount)
  IN /\ pc[r] = "idle"
     /\ IF rev = 1
        THEN IF ~Truthy(amt) \/ ~Truthy(orderId)
             THEN Respond(r, rq, Response(400, "false",
                            "Valid amount (> 0) and orderId are required", ""))
             ELSE BeginLogin(r, rq)
        ELSE IF ~Truthy(amount) \/ ~Truthy(orderId)
             THEN Respond(r, rq, Response(400, "false",
                            "Amount and orderId are required", ""))
             ELSE IF ~Truthy(amt) \/ amt.v <= 0
                  THEN Respond(r, rq, Response(400, "false",
                                 "Valid amount (> 0) is required", ""))
                  ELSE BeginLogin(r, rq)

\* POST /create-payment of rev 3
CreatePayment(r, amount) ==
  /\ pc[r] = "idle"
  /\ BeginLogin(r, Request(3, "create-payment", amount, Undefined, Undefined, Undefined))

\* POST /confirm-payment
ConfirmPayment(r, paymentIntentId, paymentMethodId) ==
  LET rq == Request(1, "confirm-payment", Undefined, Undefined,
                    paymentIntentId, paymentMethodId)
  IN /\ pc[r] = "idle"
     /\ IF ~Truthy(paymentIntentId) \/ ~Truthy(paymentMethodId)
        THEN Respond(r, rq, Response(400, "false",
                       "paymentIntentId and paymentMethodId are required", ""))
        ELSE BeginLogin(r, rq)

\* GET /payment-status/:id, id being req.params.id?.trim()
PaymentStatus(r, id) ==
  LET rq == Request(1, "payment-status", Undefined, Undefined, id, Undefined)
  IN /\ pc[r] = "idle"
     /\ IF ~Truthy(id)
        THEN Respond(r, rq, Response(400, "false", "Payment ID required", ""))
        ELSE BeginLogin(r, rq)

\* POST /webhooks/payment-events: logs two fields of the parsed body and
\* answers {received: true}; no statement of its try block throws.
Webhook(r) ==
  /\ pc[r] = "idle"
  /\ Respond(r, Request(1, "webhooks", Undefined, Undefined, Undefined, Undefined),
             Response(200, "absent", "", ""))

\* the 404 handler of rev 1
NotFound(r) ==
  /\ pc[r] = "idle"
  /\ Respond(r, Request(1, "unknown", Undefined, Undefined, Undefined, Undefined),
             Response(404, "false", "Endpoint not found", ""))

\* The login call is answered: the token helper returns or throws, and the
\* handler goes on to its payment call or to its catch.
LoginReturns(r, ans) ==
  LET rq == req[r]
      got == ObtainToken(rq.rev, ans)
  IN /\ pc[r] = "login"
     /\ loginAns' = [loginAns EXCEPT ![r] = ans]
     /\ nextTok' = IF ans.kind = "ok" /\ ans.tok # 0 THEN nextTok + 1 ELSE nextTok
     /\ IF got.threw
        THEN /\ resp' = [resp EXCEPT ![r] = RouteCatch(rq, got.err)]
             /\ pc' = [pc EXCEPT ![r] = "done"]
             /\ UNCHANGED <<token, calls>>
        ELSE /\ token' = [token EXCEPT ![r] = got.value]
             /\ calls' = [calls EXCEPT ![r] = Append(@, PayCall(r, rq, token'))]
             /\ pc' = [pc EXCEPT ![r] = "pay"]
             /\ UNCHANGED resp
     /\ UNCHANGED <<ENV, clientId, apiKey, req, payAns>>

\* The payment call is answered: the handler responds.
PayReturns(r, ans) ==
  LET rq == req[r]
  IN /\ pc[r] = "pay"
     /\ payAns' = [payAns EXCEPT ![r] = ans]
     /\ resp' = [resp EXCEPT ![r] =
                   IF ans.kind = "ok" THEN RouteSuccess(rq)
                   ELSE RouteCatch(rq, interceptor(rq.rev, AxiosError(ans)))]
     /\ pc' = [pc EXCEPT ![r] = "done"]
     /\ UNCHANGED <<ENV, clientId, apiKey, req, token, calls, loginAns, nextTok>>

\* One request at a time, over every route, input and processor answer.
Next ==
  \/ \E rev \in {1, 2}, amount \in Amounts, orderId \in Ids :
       CreatePaymentIntent(1, rev, amount, orderId)
  \/ \E amount \in Amounts : CreatePayment(1, amount)
  \/ \E a, b \in Ids : ConfirmPayment(1, a, b)
  \/ \E id \in Ids : PaymentStatus(1, id)
  \/ Webhook(1)
  \/ NotFound(1)
  \/ \E ans \in LoginAnswers(req[1].rev, Statuses) : LoginReturns(1, ans)
  \/ \E ans \in PayAnswers(req[1].rev, Statuses) : PayReturns(1, ans)

Spec == Init /\ [][Next]_vars

\* Concurrent confirm-payment requests, over every input and answer.
NextConfirm ==
  \E r \in Reqs :
    \/ \E a, b \in Ids : ConfirmPayment(r, a, b)
    \/ \E ans \in LoginAnswers(req[r].rev, Statuses) : LoginReturns(r, ans)
    \/ \E ans \in PayAnswers(req[r].rev, Statuses) : PayReturns(r, ans)

SpecConfirm == Init /\ [][NextConfirm]_vars

\* Concurrent requests to every payment route of every revision, with input
\* that passes validation; the processor accepts, refuses or times out.
NextConc ==
  \E r \in Reqs :
    \/ \E rev \in {1, 2} : CreatePaymentIntent(r, rev, Num(29990), WordStr)
    \/ CreatePayment(r, Num(29990))
    \/ ConfirmPayment(r, WordStr, WordStr)
    \/ PaymentStatus(r, WordStr)
    \/ \E ans \in LoginAnswers(req[r].rev, {401}) : LoginReturns(r, ans)
    \/ \E ans \in PayAnswers(req[r].rev, {404}) : PayReturns(r, ans)

SpecConc == Init /\ [][NextConc]_vars

\* ================================================================ claims
Started(r) == pc[r] # "idle"

Done(r) == pc[r] = "done"

\* The payment calls a request has issued.
PayCalls(r) == {i \in DOMAIN calls[r] : calls[r][i].kind # "login"}

\* An amount that is <= 0 or not numeric: missing, null, a string that is
\* no number, NaN or infinite.
InvalidAmount(x) ==
  \/ x.t \in {"undefined", "null", "string", "emptystr", "NaN", "Infinity"}
  \/ x.t \in {"number", "numstr"} /\ x.v <= 0

\* C1: every request to create a payment whose amount is <= 0 or not
\* numeric is answered 400 with success=false and issues no outbound call.
C1_InvalidAmountRejected ==
  \A r \in Reqs :
    (/\ Started(r)
     /\ req[r].route \in {"create-payment-intent", "create-payment"}
     /\ InvalidAmount(req[r].amount))
    => /\ calls[r] = <<>>
       /\ resp[r].status = 400
       /\ resp[r].success = "false"

\* round(amount * 100) as a JavaScript number
MinorUnits(amount) == Num(RoundCents(Number(amount).v) * 1000)

\* A finite positive number, given as a number or as a numeral.
ValidAmount(x) == x.t \in {"number", "numstr"} /\ x.v > 0

\* C2: for a valid amount, the amount and unit_price of every
\* intent-creation payload of create-payment-intent equal round(amount * 100).
C2_PayloadInMinorUnits ==
  \A r \in Reqs :
    \A i \in PayCalls(r) :
      (req[r].route = "create-payment-intent" /\ ValidAmount(req[r].amount))
      => /\ calls[r][i].amount = MinorUnits(req[r].amount)
         /\ calls[r][i].unit_price = MinorUnits(req[r].amount)

PaymentRoutes == {"create-payment-intent", "confirm-payment", "payment-status", "create-payment"}

\* C3: with a credential absent, a payment-route request with valid input
\* issues no outbound call and is answered with a configuration error.
C3_MissingCredentialsConfigurationError ==
  \A r \in Reqs :
    (/\ Started(r)
     /\ req[r].route \in PaymentRoutes
     /\ ~clientId \/ ~apiKey
     /\ resp[r].status # 400)
    => /\ calls[r] = <<>>
       /\ Done(r)
       /\ resp[r].error = "Payment configuration error"

\* C4: when the login call of a create-payment-intent request is answered
\* 401, the response carries the authentication-failed message and no
\* intent-creation call is issued.
C4_Login401AuthenticationError ==
  \A r \in Reqs :
    (req[r].route = "create-payment-intent" /\ loginAns[r] = Ans("http", 401, 0))
    => /\ Done(r)
       /\ resp[r].error = "Authentication failed with payment provider"
       /\ PayCalls(r) = {}

\* C5: when a processor call of a create-payment-intent request times out,
\* the request is answered, with status 503 or 504.
C5_TimeoutGives503Or504 ==
  \A r \in Reqs :
    (req[r].route = "create-payment-intent" /\ Timeout \in {loginAns[r], payAns[r]})
    => /\ Done(r)
       /\ resp[r].status \in {503, 504}

\* The answers that make a login fail other than by a missing token.
OtherLoginFailures(rev) == LoginAnswers(rev, Statuses) \ {Ans("ok", 200, nextTok), NoTokenAns}

\* C6: a login answered 2xx without a token makes token acquisition fail
\* with an error that differs from the error of every other login failure
\* (rejected credentials, unavailable, generic), and no payment call
\* carries a missing token.
C6_MissingTokenDistinctProtocolError ==
  \A r \in Reqs :
    /\ \A i \in PayCalls(r) : calls[r][i].token # 0
    /\ loginAns[r] = NoTokenAns
       => /\ ObtainToken(req[r].rev, NoTokenAns).threw
          /\ \A a \in OtherLoginFailures(req[r].rev) :
               ObtainToken(req[r].rev, a).err # ObtainToken(req[r].rev, NoTokenAns).err

\* C7: every error response has success=false and an error message, and
\* carries details only outside production.
C7_ErrorShape ==
  \A r \in Reqs :
    (Done(r) /\ resp[r].status >= 400)
    => /\ resp[r].success = "false"
       /\ resp[r].error # ""
       /\ ENV = "production" => resp[r].details = ""

Unavailable == {"Payment service temporarily unavailable", "Payment service unavailable"}

Generic == {"Failed to create payment", "Failed to create payment intent"}

\* C8: a failed intent-creation call is mapped by the processor's status:
\* 401 authentication failed, 400 invalid payment request, >= 500 or timeout
\* service unavailable with status 503 or 504, anything else the generic
\* payment error; the status is 500 except for unavailable.
C8_CreateFailureMapping ==
  \A r \in Reqs :
    (req[r].route = "create-payment-intent" /\ payAns[r].kind \in {"http", "timeout"})
    => LET a == payAns[r] IN
       CASE a.kind = "http" /\ a.status = 401 ->
              /\ resp[r].error = "Authentication failed with payment provider"
              /\ resp[r].status = 500
         [] a.kind = "http" /\ a.status = 400 ->
              /\ resp[r].error = "Invalid payment request"
              /\ resp[r].status = 500
         [] a.kind = "timeout" \/ a.status >= 500 ->
              /\ resp[r].error \in Unavailable
              /\ resp[r].status \in {503, 504}
         [] OTHER ->
              /\ resp[r].error \in Generic
              /\ resp[r].status = 500

\* C9: a confirm-payment request with both identifiers that fails is
\* answered "Payment intent not found" when the confirm call was answered
\* 404, the payment-declined message when it was answered 402, and the
\* generic payment error otherwise, whatever made the token fetch fail.
C9_ConfirmFailureMapping ==
  \A r \in Reqs :
    (/\ req[r].route = "confirm-payment"
     /\ Done(r)
     /\ Truthy(req[r].intentId) /\ Truthy(req[r].methodId)
     /\ resp[r].status >= 400)
    => resp[r].error =
         IF payAns[r] = Ans("http", 404, 0) THEN "Payment intent not found"
         ELSE IF payAns[r] = Ans("http", 402, 0)
              THEN "Payment failed - please check your payment details"
         ELSE "Failed to confirm payment"

\* A confirm-payment request whose login was answered 404 got the generic
\* error.
C9_Witness ==
  \E r \in Reqs :
    /\ req[r].route = "confirm-payment"
    /\ Done(r)
    /\ loginAns[r] = Ans("http", 404, 0)
    /\ resp[r].error = "Failed to confirm payment"

\* C10: a request issues at most one login call and then at most one
\* payment call; the payment call follows a login of the same request that
\* was answered 2xx and carries the token of that answer, and no token
\* issued to another request.
C10_OwnTokenOnce ==
  \A r \in Reqs :
    /\ Len(calls[r]) <= 2
    /\ \A i \in DOMAIN calls[r] : (calls[r][i].kind = "login") <=> (i = 1)
    /\ \A i \in PayCalls(r) :
         /\ loginAns[r].kind = "ok"
         /\ calls[r][i].token = loginAns[r].tok
         /\ \A q \in Reqs \ {r} :
              loginAns[q].tok # 0 => calls[r][i].token # loginAns[q].tok

\* Two requests have each issued a payment call, with different tokens.
C10_Witness ==
  \E r, q \in Reqs :
    /\ r # q
    /\ PayCalls(r) # {} /\ PayCalls(q) # {}
    /\ calls[r][2].token # 0 /\ calls[q][2].token # 0
    /\ calls[r][2].token # calls[q][2].token

====
